---- MODULE Spec2Model ----
(***************************************************************************)
(* A model of the gqbd query builder (gqbd.go).  SQL text is a sequence   *)
(* of one-character strings, so that quoting, placeholder rewriting and   *)
(* clause assembly are computed character by character as the code does.  *)
(* Bound argument values (interface{}) are integers.                      *)
(***************************************************************************)
EXTENDS Integers, Sequences, FiniteSets, TLC

\* ------------------------------------------------------------- constants

PostgreSQL == "postgres"
MariaDB == "mariadb"

\* ------------------------------------------------- string literals of gqbd.go

\* The two identifier quote characters.  The TLA+ lexer does not accept U+0060
\* inside a string, so that one character is written as the string "BACKTICK".
DoubleQuote == "\""
Backtick == "BACKTICK"
Star == <<"*">>
kwSelect == <<"S", "E", "L", "E", "C", "T", " ">>
kwFrom == <<" ", "F", "R", "O", "M", " ">>
kwWhere == <<" ", "W", "H", "E", "R", "E", " ">>
kwAnd == <<" ", "A", "N", "D", " ">>
kwOrderBy == <<" ", "O", "R", "D", "E", "R", " ", "B", "Y", " ">>
kwLimit == <<" ", "L", "I", "M", "I", "T", " ">>
kwOffset == <<" ", "O", "F", "F", "S", "E", "T", " ">>
kwLeftJoin == <<"L", "E", "F", "T", " ", "J", "O", "I", "N", " ">>
kwInnerJoin == <<"I", "N", "N", "E", "R", " ", "J", "O", "I", "N", " ">>
kwRightJoin == <<"R", "I", "G", "H", "T", " ", "J", "O", "I", "N", " ">>
kwOn == <<" ", "O", "N", " ">>
kwIn == <<" ", "I", "N", " ", "(">>
kwBetween == <<" ", "B", "E", "T", "W", "E", "E", "N", " ">>
kwAsc == <<"A", "S", "C">>
kwDesc == <<"D", "E", "S", "C">>
kwId == <<"i", "d">>
CommaSpace == <<",", " ">>
Space == <<" ">>
\* What fmt.Sprintf writes for a %s verb that has no operand left.
SprintfMissing == <<"%", "!", "s", "(", "M", "I", "S", "S", "I", "N", "G", ")">>

\* ------------------------------------------------ library functions (Go)

LowerLetters == <<"a", "b", "c", "d", "e", "f", "g", "h", "i", "j", "k", "l", "m",
                  "n", "o", "p", "q", "r", "s", "t", "u", "v", "w", "x", "y", "z">>
UpperLetters == <<"A", "B", "C", "D", "E", "F", "G", "H", "I", "J", "K", "L", "M",
                  "N", "O", "P", "Q", "R", "S", "T", "U", "V", "W", "X", "Y", "Z">>
DecimalDigits == <<"0", "1", "2", "3", "4", "5", "6", "7", "8", "9">>

\* strings.ToUpper on ASCII text.
UpperChar(c) ==
    IF \E i \in 1..Len(LowerLetters) : LowerLetters[i] = c
    THEN UpperLetters[CHOOSE i \in 1..Len(LowerLetters) : LowerLetters[i] = c]
    ELSE c

ToUpper(s) == [i \in 1..Len(s) |-> UpperChar(s[i])]

\* strings.Join(elems, sep)
RECURSIVE StringsJoin(_, _)
StringsJoin(elems, sep) ==
    IF Len(elems) = 0 THEN <<>>
    ELSE IF Len(elems) = 1 THEN elems[1]
    ELSE elems[1] \o sep \o StringsJoin(Tail(elems), sep)

\* strings.ReplaceAll(s, old, new) for a one-character old.
RECURSIVE ReplaceAll(_, _, _)
ReplaceAll(s, old, new) ==
    IF Len(s) = 0 THEN <<>>
    ELSE (IF Head(s) = old THEN new ELSE <<Head(s)>>) \o ReplaceAll(Tail(s), old, new)

\* The %d verb of fmt.Sprintf: the decimal digits of n.
RECURSIVE FormatInt(_)
FormatInt(n) ==
    IF n < 0 THEN <<"-">> \o FormatInt(0 - n)
    ELSE IF n < 10 THEN <<DecimalDigits[n + 1]>>
    ELSE FormatInt(n \div 10) \o <<DecimalDigits[(n % 10) + 1]>>

\* fmt.Sprintf("$%d", n)
Dollar(n) == <<"$">> \o FormatInt(n)

\* ------------------------------------------------------- helpers of gqbd.go

\* escapeIdentifier without the doubling of embedded quote characters.
escapeIdentifierMutant(dbt, name) ==
    IF name = Star THEN name
    ELSE IF dbt = PostgreSQL
         THEN <<DoubleQuote>> \o name \o <<DoubleQuote>>
         ELSE <<Backtick>> \o name \o <<Backtick>>

escapeIdentifier(dbt, name) ==
    IF name = Star THEN name
    ELSE IF dbt = PostgreSQL
         THEN <<DoubleQuote>> \o ReplaceAll(name, DoubleQuote, <<DoubleQuote, DoubleQuote>>) \o <<DoubleQuote>>
         ELSE <<Backtick>> \o ReplaceAll(name, Backtick, <<Backtick, Backtick>>) \o <<Backtick>>

validateDirection(direction) ==
    LET up == ToUpper(direction)
    IN  IF up # kwAsc /\ up # kwDesc THEN kwDesc ELSE up

\* The loop of replacePlaceholders: the rest of the condition and placeholderCount.
RECURSIVE ReplaceLoop(_, _)
ReplaceLoop(condition, placeholderCount) ==
    IF Len(condition) = 0 THEN <<>>
    ELSE IF Head(condition) = "?"
         THEN Dollar(placeholderCount) \o ReplaceLoop(Tail(condition), placeholderCount + 1)
         ELSE <<Head(condition)>> \o ReplaceLoop(Tail(condition), placeholderCount)

\* replacePlaceholders numbering from 1 whatever startIdx is.
replacePlaceholdersMutant(dbt, condition, startIdx) ==
    IF dbt = MariaDB THEN condition ELSE ReplaceLoop(condition, 1)

replacePlaceholders(dbt, condition, startIdx) ==
    IF dbt = MariaDB THEN condition ELSE ReplaceLoop(condition, startIdx)

\* generatePlaceholders without the +i of startIdx+i.
generatePlaceholdersMutant(dbt, startIdx, count) ==
    StringsJoin([i \in 1..count |->
                    IF dbt = PostgreSQL THEN Dollar(startIdx) ELSE <<"?">>],
                CommaSpace)

generatePlaceholders(dbt, startIdx, count) ==
    StringsJoin([i \in 1..count |->
                    IF dbt = PostgreSQL THEN Dollar(startIdx + (i - 1)) ELSE <<"?">>],
                CommaSpace)

\* ----------------------------------------------------------------- state

VARIABLES
    dbType, table, columns, joins, conditions, groupBy, having, orderBy,
    limit, offset, args, distinct,   \* the fields of QueryBuilder
    retQuery, retArgs,                \* what the last Build returned
    calls,                            \* the calls made so far, constructor first
    budget                            \* how many calls after the constructor are explored

qb == <<dbType, table, columns, joins, conditions, groupBy, having, orderBy,
        limit, offset, args, distinct>>
vars == <<dbType, table, columns, joins, conditions, groupBy, having, orderBy,
          limit, offset, args, distinct, retQuery, retArgs, calls, budget>>

\* A nil map[string]bool and a non-nil one; only the keys of the map are read.
NilMap == [isNil |-> TRUE, keys |-> {}]
MapOf(ks) == [isNil |-> FALSE, keys |-> ks]

CallRec(op, s1, s2, list, vals, num, allowed) ==
    [op |-> op, s1 |-> s1, s2 |-> s2, list |-> list, vals |-> vals, num |-> num,
     allowed |-> allowed]

CanCall == Len(calls) <= budget

Logged(op, s1, s2, list, vals, num, allowed) ==
    /\ CanCall
    /\ calls' = Append(calls, CallRec(op, s1, s2, list, vals, num, allowed))
    /\ budget' = budget

\* ------------------------------------------------------------ operations

NewQueryBuilder(dbt, t, cols) ==
    /\ dbType = dbt
    /\ table = escapeIdentifier(dbt, t)
    /\ columns = IF Len(cols) = 0 THEN <<Star>>
                 ELSE [i \in 1..Len(cols) |-> escapeIdentifier(dbt, cols[i])]
    /\ joins = <<>>
    /\ conditions = <<>>
    /\ groupBy = <<>>
    /\ having = <<>>
    /\ orderBy = <<>>
    /\ limit = 0
    /\ offset = 0
    /\ args = <<>>
    /\ distinct = FALSE
    /\ retQuery = <<>>
    /\ retArgs = <<>>
    /\ calls = <<CallRec("New", t, <<>>, cols, <<>>, 0, NilMap)>>

Distinct ==
    /\ distinct' = TRUE
    /\ Logged("Distinct", <<>>, <<>>, <<>>, <<>>, 0, NilMap)
    /\ UNCHANGED <<dbType, table, columns, joins, conditions, groupBy, having, orderBy,
                   limit, offset, args, retQuery, retArgs>>

Aggregate(function, column) ==
    /\ columns' = Append(columns,
                         function \o <<"(">> \o escapeIdentifier(dbType, column) \o <<")">>)
    /\ Logged("Aggregate", function, column, <<>>, <<>>, 0, NilMap)
    /\ UNCHANGED <<dbType, table, joins, conditions, groupBy, having, orderBy,
                   limit, offset, args, distinct, retQuery, retArgs>>

LeftJoin(joinTable, onCondition) ==
    /\ joins' = Append(joins,
                       kwLeftJoin \o escapeIdentifier(dbType, joinTable) \o kwOn \o onCondition)
    /\ Logged("LeftJoin", joinTable, onCondition, <<>>, <<>>, 0, NilMap)
    /\ UNCHANGED <<dbType, table, columns, conditions, groupBy, having, orderBy,
                   limit, offset, args, distinct, retQuery, retArgs>>

InnerJoin(joinTable, onCondition) ==
    /\ joins' = Append(joins,
                       kwInnerJoin \o escapeIdentifier(dbType, joinTable) \o kwOn \o onCondition)
    /\ Logged("InnerJoin", joinTable, onCondition, <<>>, <<>>, 0, NilMap)
    /\ UNCHANGED <<dbType, table, columns, conditions, groupBy, having, orderBy,
                   limit, offset, args, distinct, retQuery, retArgs>>

RightJoin(joinTable, onCondition) ==
    /\ joins' = Append(joins,
                       kwRightJoin \o escapeIdentifier(dbType, joinTable) \o kwOn \o onCondition)
    /\ Logged("RightJoin", joinTable, onCondition, <<>>, <<>>, 0, NilMap)
    /\ UNCHANGED <<dbType, table, columns, conditions, groupBy, having, orderBy,
                   limit, offset, args, distinct, retQuery, retArgs>>

Where(condition, a) ==
    /\ conditions' = Append(conditions,
                            replacePlaceholders(dbType, condition, Len(args) + 1))
    /\ args' = args \o a
    /\ Logged("Where", condition, <<>>, <<>>, a, 0, NilMap)
    /\ UNCHANGED <<dbType, table, columns, joins, groupBy, having, orderBy,
                   limit, offset, distinct, retQuery, retArgs>>

WhereIn(column, values) ==
    /\ conditions' = Append(conditions,
                            escapeIdentifier(dbType, column) \o kwIn
                            \o generatePlaceholders(dbType, Len(args) + 1, Len(values))
                            \o <<")">>)
    /\ args' = args \o values
    /\ Logged("WhereIn", column, <<>>, <<>>, values, 0, NilMap)
    /\ UNCHANGED <<dbType, table, columns, joins, groupBy, having, orderBy,
                   limit, offset, distinct, retQuery, retArgs>>

\* Sprintf is given three %s verbs and two operands: the placeholder list fills
\* the second verb and the third is written as %!s(MISSING).
WhereBetween(column, start, end) ==
    /\ conditions' = Append(conditions,
                            escapeIdentifier(dbType, column) \o kwBetween
                            \o generatePlaceholders(dbType, Len(args) + 1, 2)
                            \o kwAnd \o SprintfMissing)
    /\ args' = args \o <<start, end>>
    /\ Logged("WhereBetween", column, <<>>, <<>>, <<start, end>>, 0, NilMap)
    /\ UNCHANGED <<dbType, table, columns, joins, groupBy, having, orderBy,
                   limit, offset, distinct, retQuery, retArgs>>

GroupBy(cols) ==
    /\ groupBy' = groupBy \o [i \in 1..Len(cols) |-> escapeIdentifier(dbType, cols[i])]
    /\ Logged("GroupBy", <<>>, <<>>, cols, <<>>, 0, NilMap)
    /\ UNCHANGED <<dbType, table, columns, joins, conditions, having, orderBy,
                   limit, offset, args, distinct, retQuery, retArgs>>

\* Having without the append of its arguments.
HavingMutant(condition, a) ==
    /\ having' = Append(having, replacePlaceholders(dbType, condition, Len(args) + 1))
    /\ args' = args
    /\ Logged("Having", condition, <<>>, <<>>, a, 0, NilMap)
    /\ UNCHANGED <<dbType, table, columns, joins, conditions, groupBy, orderBy,
                   limit, offset, distinct, retQuery, retArgs>>

Having(condition, a) ==
    /\ having' = Append(having, replacePlaceholders(dbType, condition, Len(args) + 1))
    /\ args' = args \o a
    /\ Logged("Having", condition, <<>>, <<>>, a, 0, NilMap)
    /\ UNCHANGED <<dbType, table, columns, joins, conditions, groupBy, orderBy,
                   limit, offset, distinct, retQuery, retArgs>>

\* OrderBy appending to the fragment it should overwrite.
OrderByMutant(column, direction, allowedColumns) ==
    LET dir == validateDirection(direction)
        col == IF ~allowedColumns.isNil /\ column \notin allowedColumns.keys
               THEN kwId ELSE column
        frag == escapeIdentifier(dbType, col) \o Space \o dir
    IN  /\ orderBy' = IF orderBy = <<>> THEN frag ELSE orderBy \o CommaSpace \o frag
        /\ Logged("OrderBy", column, direction, <<>>, <<>>, 0, allowedColumns)
        /\ UNCHANGED <<dbType, table, columns, joins, conditions, groupBy, having,
                       limit, offset, args, distinct, retQuery, retArgs>>

OrderBy(column, direction, allowedColumns) ==
    LET dir == validateDirection(direction)
        col == IF ~allowedColumns.isNil /\ column \notin allowedColumns.keys
               THEN kwId ELSE column
    IN  /\ orderBy' = escapeIdentifier(dbType, col) \o Space \o dir
        /\ Logged("OrderBy", column, direction, <<>>, <<>>, 0, allowedColumns)
        /\ UNCHANGED <<dbType, table, columns, joins, conditions, groupBy, having,
                       limit, offset, args, distinct, retQuery, retArgs>>

Limit(n) ==
    /\ limit' = n
    /\ Logged("Limit", <<>>, <<>>, <<>>, <<>>, n, NilMap)
    /\ UNCHANGED <<dbType, table, columns, joins, conditions, groupBy, having, orderBy,
                   offset, args, distinct, retQuery, retArgs>>

Offset(n) ==
    /\ offset' = n
    /\ Logged("Offset", <<>>, <<>>, <<>>, <<>>, n, NilMap)
    /\ UNCHANGED <<dbType, table, columns, joins, conditions, groupBy, having, orderBy,
                   limit, args, distinct, retQuery, retArgs>>

\* The text Build has written before the LIMIT & OFFSET handling.
\* The clauses with ORDER BY written before WHERE.
BuildClausesMutant ==
    kwSelect \o StringsJoin(columns, CommaSpace) \o kwFrom \o table
    \o (IF Len(joins) > 0 THEN Space \o StringsJoin(joins, Space) ELSE <<>>)
    \o (IF orderBy # <<>> THEN kwOrderBy \o orderBy ELSE <<>>)
    \o (IF Len(conditions) > 0 THEN kwWhere \o StringsJoin(conditions, kwAnd) ELSE <<>>)

BuildClauses ==
    kwSelect \o StringsJoin(columns, CommaSpace) \o kwFrom \o table
    \o (IF Len(joins) > 0 THEN Space \o StringsJoin(joins, Space) ELSE <<>>)
    \o (IF Len(conditions) > 0 THEN kwWhere \o StringsJoin(conditions, kwAnd) ELSE <<>>)
    \o (IF orderBy # <<>> THEN kwOrderBy \o orderBy ELSE <<>>)

\* Build with the argIdx++ after LIMIT left out.
BuildMutantIndex ==
    LET argIdx == Len(args) + 1
        q1 == IF limit > 0 THEN BuildClauses \o kwLimit \o Dollar(argIdx) ELSE BuildClauses
        a1 == IF limit > 0 THEN Append(args, limit) ELSE args
        q2 == IF offset > 0 THEN q1 \o kwOffset \o Dollar(argIdx) ELSE q1
        a2 == IF offset > 0 THEN Append(a1, offset) ELSE a1
    IN  /\ args' = a2
        /\ retQuery' = q2
        /\ retArgs' = a2
        /\ Logged("Build", <<>>, <<>>, <<>>, <<>>, 0, NilMap)
        /\ UNCHANGED <<dbType, table, columns, joins, conditions, groupBy, having, orderBy,
                       limit, offset, distinct>>

\* Build appending LIMIT and OFFSET to a copy of qb.args, not to qb.args.
BuildMutantCopy ==
    LET argIdx == Len(args) + 1
        q1 == IF limit > 0 THEN BuildClauses \o kwLimit \o Dollar(argIdx) ELSE BuildClauses
        a1 == IF limit > 0 THEN Append(args, limit) ELSE args
        argIdx1 == IF limit > 0 THEN argIdx + 1 ELSE argIdx
        q2 == IF offset > 0 THEN q1 \o kwOffset \o Dollar(argIdx1) ELSE q1
        a2 == IF offset > 0 THEN Append(a1, offset) ELSE a1
    IN  /\ args' = args
        /\ retQuery' = q2
        /\ retArgs' = a2
        /\ Logged("Build", <<>>, <<>>, <<>>, <<>>, 0, NilMap)
        /\ UNCHANGED <<dbType, table, columns, joins, conditions, groupBy, having, orderBy,
                       limit, offset, distinct>>

Build ==
    LET argIdx == Len(args) + 1
        q1 == IF limit > 0 THEN BuildClauses \o kwLimit \o Dollar(argIdx) ELSE BuildClauses
        a1 == IF limit > 0 THEN Append(args, limit) ELSE args
        argIdx1 == IF limit > 0 THEN argIdx + 1 ELSE argIdx
        q2 == IF offset > 0 THEN q1 \o kwOffset \o Dollar(argIdx1) ELSE q1
        a2 == IF offset > 0 THEN Append(a1, offset) ELSE a1
    IN  /\ args' = a2
        /\ retQuery' = q2
        /\ retArgs' = a2
        /\ Logged("Build", <<>>, <<>>, <<>>, <<>>, 0, NilMap)
        /\ UNCHANGED <<dbType, table, columns, joins, conditions, groupBy, having, orderBy,
                       limit, offset, distinct>>

\* ---------------------------------------------------- inputs of the calls

nT == <<"t">>
nU == <<"u">>
nX == <<"x">>
nName == <<"n", "a", "m", "e">>
nStatus == <<"s", "t", "a", "t", "u", "s">>
nAge == <<"a", "g", "e">>
nDept == <<"d", "e", "p", "t">>
nQ == <<"q", "?">>
nUnsafeCol == <<"u", "n", "s", "a", "f", "e", "_", "c", "o", "l">>
fnCount == <<"C", "O", "U", "N", "T">>
onAB == <<"a", "=", "b">>
condC == <<"c", " ", "=", " ", "?">>
condN == <<"n", " ", ">", " ", "?">>
condTwo == <<"a", "?", "b", "?">>
condNone == <<"k">>
condDollar == <<"$", "1", "?">>
dirLower == <<"a", "s", "c">>
dirMixed == <<"D", "e", "s", "c">>
dirSideways == <<"s", "i", "d", "e", "w", "a", "y", "s">>

\* ------------------------------------------------- the whole builder (Spec)

MaxCalls == 3

Dialects == {PostgreSQL, MariaDB}
NewInputs == {<<nT, <<>>>>, <<nT, <<kwId, nName>>>>}
WhereInputs == {<<condC, <<7>>>>, <<condC, <<>>>>}
HavingInputs == {<<condN, <<3>>>>}
OrderByInputs == {<<kwId, kwDesc, NilMap>>, <<nX, dirLower, MapOf({kwId})>>}
LimitInputs == {10, -1}
OffsetInputs == {5, -1}

Init ==
    /\ budget = MaxCalls
    /\ \E dbt \in Dialects, n \in NewInputs : NewQueryBuilder(dbt, n[1], n[2])

Next ==
    \/ Distinct
    \/ Aggregate(fnCount, Star)
    \/ LeftJoin(nU, onAB)
    \/ InnerJoin(nU, onAB)
    \/ RightJoin(nU, onAB)
    \/ \E w \in WhereInputs : Where(w[1], w[2])
    \/ WhereIn(nStatus, <<1, 2, 3>>)
    \/ WhereBetween(nAge, 18, 65)
    \/ GroupBy(<<nDept>>)
    \/ \E h \in HavingInputs : Having(h[1], h[2])
    \/ \E o \in OrderByInputs : OrderBy(o[1], o[2], o[3])
    \/ \E n \in LimitInputs : Limit(n)
    \/ \E n \in OffsetInputs : Offset(n)
    \/ Build

Spec == Init /\ [][Next]_vars

\* ------------------------------------- filtering calls only (SpecFilter)

MaxFilterCalls == 4

FilterWhereInputs ==
    {<<condC, <<7>>>>, <<condTwo, <<1, 2>>>>, <<condNone, <<>>>>, <<condDollar, <<9>>>>,
     <<condC, <<>>>>, <<condNone, <<5>>>>}
FilterWhereInInputs == {<<nStatus, <<1, 2, 3>>>>, <<nStatus, <<>>>>, <<nQ, <<4>>>>}
FilterHavingInputs == {<<condN, <<3>>>>, <<condN, <<>>>>}

InitFilter ==
    /\ budget = MaxFilterCalls
    /\ \E dbt \in Dialects : NewQueryBuilder(dbt, nT, <<>>)

NextFilter ==
    \/ \E w \in FilterWhereInputs : Where(w[1], w[2])
    \/ \E w \in FilterWhereInInputs : WhereIn(w[1], w[2])
    \/ WhereBetween(nAge, 18, 65)
    \/ \E h \in FilterHavingInputs : Having(h[1], h[2])
    \/ Build

SpecFilter == InitFilter /\ [][NextFilter]_vars

\* ------------------------------------------- pagination (SpecPaginate)

MaxPageCalls == 5

PageLimitInputs == {10, -1}
PageOffsetInputs == {5, -1}

InitPaginate ==
    /\ budget = MaxPageCalls
    /\ \E dbt \in Dialects : NewQueryBuilder(dbt, nT, <<>>)

NextPaginate ==
    \/ Where(condC, <<7>>)
    \/ WhereIn(nStatus, <<1, 2, 3>>)
    \/ \E n \in PageLimitInputs : Limit(n)
    \/ \E n \in PageOffsetInputs : Offset(n)
    \/ Build

SpecPaginate == InitPaginate /\ [][NextPaginate]_vars

\* ---------------------------------------------- ordering (SpecOrderBy)

MaxOrderCalls == 2

OrderColumns == {kwId, nX, nUnsafeCol}
OrderDirections == {kwAsc, dirLower, dirMixed, dirSideways}
OrderAllowed == {NilMap, MapOf({}), MapOf({kwId})}

InitOrderBy ==
    /\ budget = MaxOrderCalls
    /\ \E dbt \in Dialects : NewQueryBuilder(dbt, nT, <<>>)

NextOrderBy ==
    \/ \E c \in OrderColumns, d \in OrderDirections, m \in OrderAllowed : OrderBy(c, d, m)
    \/ Build

SpecOrderBy == InitOrderBy /\ [][NextOrderBy]_vars

\* ------------------------------------ identifier escaping (SpecEscape)

MaxNameLen == 2

NameAlphabet == {"a", "*", DoubleQuote, Backtick}
EscapeNames == UNION {[1..k -> NameAlphabet] : k \in 0..MaxNameLen}

\* escapeIdentifier is a function of the dialect and the name alone: every name
\* is escaped by the constructor (as table, as column) and by one later call.
InitEscape ==
    /\ budget = 1
    /\ \E dbt \in Dialects, n \in EscapeNames :
          \/ NewQueryBuilder(dbt, n, <<>>)
          \/ NewQueryBuilder(dbt, nT, <<n>>)
          \/ NewQueryBuilder(dbt, nT, <<kwId, n>>)

NextEscape ==
    \/ \E n \in EscapeNames : GroupBy(<<n>>)
    \/ \E n \in EscapeNames : OrderBy(n, kwAsc, NilMap)
    \/ Build

SpecEscape == InitEscape /\ [][NextEscape]_vars

\* ------------------------------------------- reading the calls and the text

LastCall == calls[Len(calls)]
LastOp == LastCall.op
\* The calls before the last one.
Earlier == SubSeq(calls, 1, Len(calls) - 1)

FilterOps == {"Where", "WhereIn", "WhereBetween", "Having"}

NumCalls(log, ops) == Cardinality({i \in 1..Len(log) : log[i].op \in ops})

\* The values the filtering calls of a log were given, in call order.
RECURSIVE ArgsOfCalls(_)
ArgsOfCalls(log) ==
    IF Len(log) = 0 THEN <<>>
    ELSE (IF Head(log).op \in FilterOps THEN Head(log).vals ELSE <<>>)
         \o ArgsOfCalls(Tail(log))

RECURSIVE CountChar(_, _)
CountChar(s, ch) ==
    IF Len(s) = 0 THEN 0
    ELSE (IF Head(s) = ch THEN 1 ELSE 0) + CountChar(Tail(s), ch)

IsDigit(c) == \E i \in 1..Len(DecimalDigits) : DecimalDigits[i] = c
DigitValue(c) == (CHOOSE i \in 1..Len(DecimalDigits) : DecimalDigits[i] = c) - 1

\* The length of the run of digits a text starts with.
RECURSIVE DigitRun(_)
DigitRun(s) ==
    IF Len(s) = 0 \/ ~IsDigit(Head(s)) THEN 0 ELSE 1 + DigitRun(Tail(s))

RECURSIVE ParseDigits(_, _)
ParseDigits(s, acc) ==
    IF Len(s) = 0 THEN acc ELSE ParseDigits(Tail(s), 10 * acc + DigitValue(Head(s)))

\* The numbers of the $N markers of a text, left to right: a marker is a `$`
\* and the digits that follow it.
RECURSIVE Markers(_)
Markers(s) ==
    IF Len(s) = 0 THEN <<>>
    ELSE LET k == DigitRun(Tail(s))
         IN  IF Head(s) = "$" /\ k > 0
             THEN <<ParseDigits(SubSeq(s, 2, k + 1), 0)>> \o Markers(SubSeq(s, k + 2, Len(s)))
             ELSE Markers(Tail(s))

StartsWith(s, prefix) ==
    Len(s) >= Len(prefix) /\ SubSeq(s, 1, Len(prefix)) = prefix
EndsWith(s, suffix) ==
    Len(s) >= Len(suffix) /\ SubSeq(s, Len(s) - Len(suffix) + 1, Len(s)) = suffix
\* How many times a text occurs in another.
Occurrences(s, part) ==
    Cardinality({i \in 1..Len(s) : StartsWith(SubSeq(s, i, Len(s)), part)})

QuoteOf(dbt) == IF dbt = PostgreSQL THEN DoubleQuote ELSE Backtick

\* ------------------------------------------------------------------ C9

\* Every maximal run of q in s has even length.
RECURSIVE EvenRuns(_, _)
EvenRuns(s, q) ==
    IF Len(s) = 0 THEN TRUE
    ELSE IF Head(s) # q THEN EvenRuns(Tail(s), q)
    ELSE Len(s) >= 2 /\ s[2] = q /\ EvenRuns(SubSeq(s, 3, Len(s)), q)

\* s with every pair qq read back as one q.
RECURSIVE Undoubled(_, _)
Undoubled(s, q) ==
    IF Len(s) = 0 THEN <<>>
    ELSE IF Head(s) = q /\ Len(s) >= 2 /\ s[2] = q
         THEN <<q>> \o Undoubled(SubSeq(s, 3, Len(s)), q)
         ELSE <<Head(s)>> \o Undoubled(Tail(s), q)

\* out is name escaped for the dialect, as C9 describes it.
Escaped(dbt, name, out) ==
    IF name = Star THEN out = Star
    ELSE LET q == QuoteOf(dbt)
             inner == SubSeq(out, 2, Len(out) - 1)
         IN  /\ Len(out) >= 2
             /\ out[1] = q
             /\ out[Len(out)] = q
             /\ Len(inner) = Len(name) + CountChar(name, q)
             /\ EvenRuns(inner, q)
             /\ Undoubled(inner, q) = name

\* C9: escapeIdentifier returns `*` unchanged and every other name wrapped in one
\* pair of the dialect's quote character, each embedded quote character doubled
\* exactly once and nothing else changed, so that every run of the quote character
\* between the outer quotes is even; the constructor escapes the table and every
\* column this way and selects `*` for an empty column list, and so do the later
\* calls that take a column (GroupBy, OrderBy).
C9_EscapeIdentifier ==
    LET new == calls[1]
    IN  /\ Escaped(dbType, new.s1, table)
        /\ IF Len(new.list) = 0 THEN columns = <<Star>>
           ELSE /\ Len(columns) = Len(new.list)
                /\ \A i \in 1..Len(new.list) : Escaped(dbType, new.list[i], columns[i])
        /\ LastOp = "GroupBy" =>
              /\ Len(groupBy) = 1
              /\ Escaped(dbType, LastCall.list[1], groupBy[1])
        /\ LastOp = "OrderBy" =>
              /\ EndsWith(orderBy, Space \o kwAsc)
              /\ Escaped(dbType, LastCall.s1, SubSeq(orderBy, 1, Len(orderBy) - 4))

\* A name holding the quote character and one that is `*` have been escaped.
C9_Witness ==
    /\ dbType = MariaDB
    /\ calls[1].s1 = <<"a", Backtick>>
    /\ table = <<Backtick, "a", Backtick, Backtick, Backtick>>
    /\ LastOp = "GroupBy"
    /\ LastCall.list = <<<<DoubleQuote, Backtick>>>>
    /\ groupBy = <<<<Backtick, DoubleQuote, Backtick, Backtick, Backtick>>>>
    /\ columns = <<Star>>

\* ------------------------------------------------------------------ C8

MaxOf(S) == CHOOSE m \in S : \A k \in S : k <= m

\* The ORDER BY fragment C8 gives for one OrderBy call.
OrderFragment(dbt, column, direction, allowed) ==
    LET up == ToUpper(direction)
        d == IF up = kwAsc \/ up = kwDesc THEN up ELSE kwDesc
        c == IF ~allowed.isNil /\ column \notin allowed.keys THEN kwId ELSE column
    IN  escapeIdentifier(dbt, c) \o Space \o d

\* C8: after any sequence of OrderBy calls the builder keeps exactly one ORDER BY
\* fragment, that of the last call: the escaped column (`id` when an allow-list is
\* given and the column is absent from it), a space, and the upper-cased direction
\* when that is ASC or DESC, DESC otherwise; Build writes that one fragment.
C8_OrderByLastWins ==
    LET idx == {i \in 1..Len(calls) : calls[i].op = "OrderBy"}
    IN  /\ idx = {} => orderBy = <<>>
        /\ idx # {} =>
              LET c == calls[MaxOf(idx)]
              IN  orderBy = OrderFragment(dbType, c.s1, c.s2, c.allowed)
        /\ LastOp = "Build" =>
              /\ Occurrences(retQuery, kwOrderBy) = (IF idx = {} THEN 0 ELSE 1)
              /\ idx # {} => EndsWith(retQuery, kwOrderBy \o orderBy)
        /\ (LastOp = "OrderBy" /\ LastCall.s1 = nX /\ LastCall.s2 = dirSideways
              /\ LastCall.allowed = NilMap)
           => orderBy = <<QuoteOf(dbType), "x", QuoteOf(dbType), " ", "D", "E", "S", "C">>
        /\ (LastOp = "OrderBy" /\ LastCall.s1 = nUnsafeCol /\ LastCall.s2 = kwAsc
              /\ LastCall.allowed = MapOf({kwId}))
           => orderBy = <<QuoteOf(dbType), "i", "d", QuoteOf(dbType), " ", "A", "S", "C">>

\* A second OrderBy, off the allow-list, has overwritten the first.
C8_Witness ==
    /\ dbType = PostgreSQL
    /\ Len(calls) = 3
    /\ calls[2].op = "OrderBy" /\ calls[2].s1 = nX /\ calls[2].s2 = dirSideways
    /\ calls[3].op = "OrderBy" /\ calls[3].s1 = nUnsafeCol /\ calls[3].s2 = kwAsc
    /\ calls[3].allowed = MapOf({kwId})
    /\ orderBy = <<DoubleQuote, "i", "d", DoubleQuote, " ", "A", "S", "C">>

\* ------------------------------------------------------------ C7, C10

\* The number given to the last call of an operation in a log, 0 without one
\* (the constructor leaves limit and offset 0).
LastNum(log, op) ==
    LET idx == {i \in 1..Len(log) : log[i].op = op}
    IN  IF idx = {} THEN 0 ELSE log[MaxOf(idx)].num

MarkerText(n) == <<"$">> \o FormatInt(n)

\* C7: on the first Build of a builder holding n arguments, under either dialect,
\* ` LIMIT $(n+1)` is written and the limit appended if and only if limit > 0, and
\* ` OFFSET $j` is written and the offset appended if and only if offset > 0, with
\* j = n+2 after a LIMIT and n+1 without one, LIMIT before OFFSET in the text and
\* in the arguments; a zero or negative limit or offset writes and appends nothing.
C7_LimitOffset ==
    (LastOp = "Build" /\ NumCalls(Earlier, {"Build"}) = 0) =>
        LET held == ArgsOfCalls(Earlier)
            n == Len(held)
            lim == LastNum(Earlier, "Limit")
            off == LastNum(Earlier, "Offset")
            j == IF lim > 0 THEN n + 2 ELSE n + 1
        IN  /\ retArgs = held \o (IF lim > 0 THEN <<lim>> ELSE <<>>)
                              \o (IF off > 0 THEN <<off>> ELSE <<>>)
            /\ retQuery = BuildClauses
                          \o (IF lim > 0 THEN kwLimit \o MarkerText(n + 1) ELSE <<>>)
                          \o (IF off > 0 THEN kwOffset \o MarkerText(j) ELSE <<>>)
            /\ Occurrences(retQuery, kwLimit) = (IF lim > 0 THEN 1 ELSE 0)
            /\ Occurrences(retQuery, kwOffset) = (IF off > 0 THEN 1 ELSE 0)
            /\ (Len(calls) = 4 /\ calls[2].op = "Limit" /\ calls[2].num = 10
                  /\ calls[3].op = "Offset" /\ calls[3].num = 5)
               => /\ EndsWith(retQuery, <<" ", "L", "I", "M", "I", "T", " ", "$", "1",
                                          " ", "O", "F", "F", "S", "E", "T", " ", "$", "2">>)
                  /\ retArgs = <<10, 5>>

\* A first Build on the fixed-token dialect, holding one argument, with a negative
\* limit and a positive offset: OFFSET alone is written, as $2.
C7_Witness ==
    /\ dbType = MariaDB
    /\ LastOp = "Build"
    /\ NumCalls(Earlier, {"Build"}) = 0
    /\ ArgsOfCalls(Earlier) = <<7>>
    /\ limit = -1
    /\ offset = 5
    /\ retArgs = <<7, 5>>
    /\ EndsWith(retQuery, <<"c", " ", "=", " ", "?", " ", "O", "F", "F", "S", "E", "T",
                            " ", "$", "2">>)

\* How many Build calls a log ends with.
RECURSIVE TrailingBuilds(_)
TrailingBuilds(log) ==
    IF Len(log) = 0 \/ log[Len(log)].op # "Build" THEN 0
    ELSE 1 + TrailingBuilds(SubSeq(log, 1, Len(log) - 1))

RECURSIVE Repeated(_, _)
Repeated(s, m) == IF m = 0 THEN <<>> ELSE s \o Repeated(s, m - 1)

\* What the m-th of m consecutive Build calls has returned, m >= 1.
C10_MthBuild ==
    LastOp = "Build" =>
        LET m == TrailingBuilds(calls)
            before == SubSeq(calls, 1, Len(calls) - m)
            held == ArgsOfCalls(before)
            n == Len(held)
        IN  NumCalls(before, {"Build"}) = 0 =>
              /\ (limit > 0 /\ offset > 0) =>
                    /\ retArgs = held \o Repeated(<<limit, offset>>, m)
                    /\ Len(retArgs) = n + 2 * m
                    /\ retQuery = BuildClauses
                                  \o kwLimit \o MarkerText(n + 2 * m - 1)
                                  \o kwOffset \o MarkerText(n + 2 * m)
              /\ (limit <= 0 /\ offset <= 0) =>
                    /\ retArgs = held
                    /\ args = held
                    /\ retQuery = BuildClauses

\* A Build with no pagination leaves the builder as it was, and one that follows
\* a Build returns what that one returned.
C10_BuildStep ==
    (calls' # calls /\ LastOp' = "Build" /\ limit <= 0 /\ offset <= 0) =>
        /\ qb' = qb
        /\ LastOp = "Build" => (retQuery' = retQuery /\ retArgs' = retArgs)

\* C10: with limit > 0 and offset > 0 on a builder holding n arguments, the m-th
\* consecutive Build appends limit and offset again: it returns n + 2m arguments,
\* the pair repeated m times, and a text ending LIMIT $(n+2m-1) OFFSET $(n+2m);
\* with limit <= 0 and offset <= 0 repeated Builds return the same text and
\* arguments and leave the builder unchanged.
C10_BuildNotIdempotent == [](C10_MthBuild) /\ [][C10_BuildStep]_vars

\* A second consecutive Build with pagination set, on a builder that held one
\* argument.
C10_Witness ==
    /\ dbType = PostgreSQL
    /\ TrailingBuilds(calls) = 2
    /\ limit = 10
    /\ offset = 5
    /\ retArgs = <<7, 10, 5, 10, 5>>
    /\ EndsWith(retQuery, <<" ", "L", "I", "M", "I", "T", " ", "$", "4",
                            " ", "O", "F", "F", "S", "E", "T", " ", "$", "5">>)

\* ------------------------------------------------------------------ C2

\* out is raw with its i-th `?` written as the marker $(next+i-1) and every other
\* character kept.
RECURSIVE Translated(_, _, _)
Translated(raw, out, next) ==
    IF Len(raw) = 0 THEN Len(out) = 0
    ELSE IF Head(raw) = "?"
         THEN LET mk == MarkerText(next)
              IN  /\ StartsWith(out, mk)
                  /\ Translated(Tail(raw), SubSeq(out, Len(mk) + 1, Len(out)), next + 1)
         ELSE /\ Len(out) > 0
              /\ Head(out) = Head(raw)
              /\ Translated(Tail(raw), Tail(out), next)

\* Every call after the constructor is a Where given one argument per `?`.
OnlyMatchedWheres(log) ==
    \A i \in 2..Len(log) :
        log[i].op = "Where" /\ Len(log[i].vals) = CountChar(log[i].s1, "?")

\* The text has no `$` of its own and no digit right after a `?`, so that its
\* markers, once translated, are read back unambiguously.
PlainText(raw) ==
    /\ CountChar(raw, "$") = 0
    /\ \A i \in 1..(Len(raw) - 1) : raw[i] = "?" => ~IsDigit(raw[i + 1])

Tokens(frag) == IF dbType = PostgreSQL THEN Len(Markers(frag)) ELSE CountChar(frag, "?")

RECURSIVE SumTokens(_)
SumTokens(frags) ==
    IF Len(frags) = 0 THEN 0 ELSE Tokens(Head(frags)) + SumTokens(Tail(frags))

\* Every Where and Having call was given one argument per `?` of its condition.
ArgsMatch(log) ==
    \A i \in 1..Len(log) :
        log[i].op \in {"Where", "Having"} => Len(log[i].vals) = CountChar(log[i].s1, "?")

\* No condition or column name given to a filtering call holds a placeholder token
\* of its own: a `$` and a digit on the positional dialect, a `?` in a column name
\* on the fixed-token dialect.
NoTokenText(log) ==
    \A i \in 1..Len(log) :
        log[i].op \in FilterOps =>
            IF dbType = PostgreSQL THEN Len(Markers(log[i].s1)) = 0
            ELSE log[i].op \in {"WhereIn", "WhereBetween"} => CountChar(log[i].s1, "?") = 0

\* C4 as stated: before Build, whatever arguments Where and Having were given, the
\* number of arguments equals the number of placeholder tokens in the WHERE and
\* HAVING fragments.
C4_ArgsEqualTokens ==
    NumCalls(calls, {"Build"}) = 0 =>
        Len(args) = SumTokens(conditions) + SumTokens(having)

\* C4 as amended: the same, for callers that give Where and Having one argument
\* per `?` and no text that holds a placeholder token of its own.
C4_ArgsEqualTokensMatched ==
    (NumCalls(calls, {"Build"}) = 0 /\ ArgsMatch(calls) /\ NoTokenText(calls)) =>
        Len(args) = SumTokens(conditions) + SumTokens(having)

\* Three filtering calls, a Having among them, holding six arguments.
C4_Witness ==
    /\ NumCalls(calls, {"Build"}) = 0
    /\ ArgsMatch(calls)
    /\ NoTokenText(calls)
    /\ Len(conditions) = 2
    /\ Len(having) = 1
    /\ Len(args) = 6
    /\ SumTokens(conditions) = 5

\* ------------------------------------------------------------------ C5

\* C5: on the positional dialect WhereBetween on a builder holding n arguments
\* appends the one fragment `<escaped column> BETWEEN $(n+1) AND $(n+2)` and
\* appends start, then end, to the arguments.
C5_WhereBetween ==
    (dbType = PostgreSQL /\ LastOp = "WhereBetween") =>
        LET held == ArgsOfCalls(Earlier)
            n == Len(held)
        IN  /\ conditions[Len(conditions)] =
                  escapeIdentifier(dbType, LastCall.s1) \o kwBetween \o MarkerText(n + 1)
                  \o kwAnd \o MarkerText(n + 2)
            /\ args = held \o LastCall.vals

\* ------------------------------------------------------------------ C6

\* The m placeholders of a builder holding n arguments, joined by `, `.
RECURSIVE PlaceholderList(_, _, _)
PlaceholderList(dbt, n, m) ==
    IF m = 0 THEN <<>>
    ELSE (IF m = 1 THEN <<>> ELSE PlaceholderList(dbt, n, m - 1) \o <<",", " ">>)
         \o (IF dbt = PostgreSQL THEN MarkerText(n + m) ELSE <<"?">>)

ExpectedStatusIn ==
    <<DoubleQuote, "s", "t", "a", "t", "u", "s", DoubleQuote, " ", "I", "N", " ",
          "(", "$", "1", ",", " ", "$", "2", ",", " ", "$", "3", ")">>

\* C6: WhereIn(column, values) on a builder holding n arguments appends the one
\* condition `<escaped column> IN (p1, ..., pm)`, m = len(values), p_i = $(n+i) on
\* the positional dialect and `?` on the fixed-token dialect, and appends the
\* values in their order.
C6_WhereIn ==
    LastOp = "WhereIn" =>
        LET held == ArgsOfCalls(Earlier)
            values == LastCall.vals
        IN  /\ Len(conditions) = NumCalls(calls, {"Where", "WhereIn", "WhereBetween"})
            /\ conditions[Len(conditions)] =
                  escapeIdentifier(dbType, LastCall.s1) \o <<" ", "I", "N", " ", "(">>
                  \o PlaceholderList(dbType, Len(held), Len(values)) \o <<")">>
            /\ args = held \o values
            /\ (dbType = PostgreSQL /\ Len(calls) = 2 /\ LastCall.s1 = nStatus
                  /\ values = <<1, 2, 3>>)
               => /\ conditions = <<ExpectedStatusIn>>
                  /\ args = <<1, 2, 3>>

\* WhereIn with three values on a positional builder that held two arguments.
C6_Witness ==
    /\ dbType = PostgreSQL
    /\ Len(calls) = 3
    /\ calls[2].op = "Where" /\ calls[2].vals = <<1, 2>>
    /\ LastOp = "WhereIn"
    /\ args = <<1, 2, 1, 2, 3>>
    /\ conditions[2] =
        <<DoubleQuote, "s", "t", "a", "t", "u", "s", DoubleQuote, " ", "I", "N", " ",
          "(", "$", "3", ",", " ", "$", "4", ",", " ", "$", "5", ")">>

\* ------------------------------------------------------------------ C1

JoinOps == {"LeftJoin", "InnerJoin", "RightJoin"}

\* The selected columns a log of calls gives: the constructor's, escaped (`*` for
\* none), then one FUNCTION(column) for each Aggregate call, in call order.
RECURSIVE SelectedBy(_, _)
SelectedBy(dbt, log) ==
    IF Len(log) = 0 THEN <<>>
    ELSE LET c == Head(log)
         IN  (IF c.op = "New"
              THEN (IF Len(c.list) = 0 THEN <<Star>>
                    ELSE [i \in 1..Len(c.list) |-> escapeIdentifier(dbt, c.list[i])])
              ELSE IF c.op = "Aggregate"
              THEN <<c.s1 \o <<"(">> \o escapeIdentifier(dbt, c.s2) \o <<")">>>>
              ELSE <<>>)
             \o SelectedBy(dbt, Tail(log))

\* The join clauses a log of calls gives, in call order.
RECURSIVE JoinedBy(_, _)
JoinedBy(dbt, log) ==
    IF Len(log) = 0 THEN <<>>
    ELSE LET c == Head(log)
             kind == IF c.op = "LeftJoin" THEN <<"L", "E", "F", "T">>
                     ELSE IF c.op = "InnerJoin" THEN <<"I", "N", "N", "E", "R">>
                     ELSE <<"R", "I", "G", "H", "T">>
         IN  (IF c.op \in JoinOps
              THEN <<kind \o <<" ", "J", "O", "I", "N", " ">> \o escapeIdentifier(dbt, c.s1)
                     \o <<" ", "O", "N", " ">> \o c.s2>>
              ELSE <<>>)
             \o JoinedBy(dbt, Tail(log))

ExpectedSelectOnly ==
    <<"S", "E", "L", "E", "C", "T", " ", DoubleQuote, "i", "d", DoubleQuote, ",", " ",
      DoubleQuote, "n", "a", "m", "e", DoubleQuote, " ", "F", "R", "O", "M", " ",
      DoubleQuote, "t", DoubleQuote>>

ExpectedSelectWhereOrderBy ==
    <<"S", "E", "L", "E", "C", "T", " ", DoubleQuote, "i", "d", DoubleQuote, ",", " ",
      DoubleQuote, "n", "a", "m", "e", DoubleQuote, " ", "F", "R", "O", "M", " ",
      DoubleQuote, "t", DoubleQuote, " ", "W", "H", "E", "R", "E", " ", "c", " ", "=",
      " ", "$", "1", " ", "O", "R", "D", "E", "R", " ", "B", "Y", " ", DoubleQuote,
      "i", "d", DoubleQuote, " ", "D", "E", "S", "C">>

C3_ContiguousMarkers ==
    (dbType = PostgreSQL /\ LastOp = "Build" /\ NumCalls(Earlier, {"Build"}) = 0
        /\ ArgsMatch(calls)) =>
        Markers(retQuery) = [i \in 1..Len(retArgs) |-> i]

====
